---- MODULE Spec2Model ----
(***************************************************************************)
(* State-machine model of the two on-chain programs of the repository:     *)
(*   programs/session-keys/src/lib.rs  (session_keys: a capped, expiring   *)
(*                                      spending authorization)            *)
(*   programs/dca-vault/src/lib.rs     (dca_vault: a recurring transfer    *)
(*                                      vault)                             *)
(* Every instruction handler is one atomic action: the runtime locks the   *)
(* accounts an instruction writes, and a handler that returns Err (or      *)
(* panics) aborts its transaction, which discards every account write it   *)
(* made, the writes of its cross-program invocations included.             *)
(***************************************************************************)
EXTENDS Integers, Sequences, FiniteSets, TLC

\* ------------------------------------------------------------------ bounds

\* Largest value of the scaled-down u64: arithmetic is modulo MaxU64 + 1.
MaxU64 == 7
\* Clock::get()?.unix_timestamp ranges over 0..MaxClock.
MaxClock == 2
\* Longest allowed_programs vector handed to create_session_key.
MaxTargets == 11
\* Largest frequency_seconds handed to initialize_vault.
MaxFreq == 1
\* Largest total_cycles handed to initialize_vault.
MaxCycles == 2
\* Largest amount_per_cycle handed to initialize_vault, and largest deposit.
MaxAmount == 1
\* Tokens of the source mint in circulation (owner wallet + custody + swap side).
Supply == 2

\* ------------------------------------------------------- program constants

\* [Pubkey; 10]: capacity of SessionKey.allowed_programs.
AllowedCap == 10
STATUS_ACTIVE == 0
STATUS_PAUSED == 1
STATUS_COMPLETED == 2
STATUS_CANCELLED == 3

\* ------------------------------------------------------------ input sets

U64 == 0..MaxU64
\* Signers of transactions; "alice" creates the accounts, "bob" is the
\* session_pubkey she delegates to, "carol" is a stranger.
Signers == {"alice", "bob", "carol"}
Creators == {"alice"}
SessionPubkeys == {"bob"}
\* Program ids a session key can be scoped to; ZeroKey is Pubkey::default(),
\* the content of the array slots create_session_key does not write.
Programs == {"swap", "other"}
ZeroKey == "zero"
\* Caps handed to create_session_key and update_limits.
CapChoices == {0, 2, MaxU64}
\* expiry_timestamp values.
Expiries == 1..MaxClock
\* Lengths of the allowed_programs vectors tried: empty, one entry, and the
\* lengths around the capacity of the fixed array.
ListLens == {0, 1} \cup (AllowedCap..MaxTargets)
\* The vectors: all "other", or "other" with "swap" as the last entry.
ProgramLists ==
    {[i \in 1..n |-> "other"] : n \in ListLens} \cup
    {[i \in 1..n |-> IF i = n THEN "swap" ELSE "other"] : n \in ListLens \ {0}}

\* frequency_seconds is an i64 that initialize_vault does not validate.
Freqs == (0 - 1)..MaxFreq
\* total_cycles is a u16 that initialize_vault does not validate.
CycleCounts == 0..MaxCycles
\* amount_per_cycle, deposit amounts and min_amount_out.
VaultAmounts == 0..MaxAmount

NoAccount == [exists |-> FALSE]

VARIABLES
    clock,            \* Clock sysvar: unix_timestamp
    overflow_checks,  \* build profile: TRUE = arithmetic overflow panics, FALSE = wraps
    session_key,      \* the SessionKey account (NoAccount before init / after close)
    given_programs,   \* the allowed_programs vector the live session key was created with
    vault,            \* the Vault account
    custody,          \* vault_token_account.amount
    owner_tokens,     \* the owner's token account of the source mint
    last              \* the last instruction: its name, its result, whether it called token::transfer

vars == <<clock, overflow_checks, session_key, given_programs, vault, custody, owner_tokens, last>>

Call(op, err, xfer) == [op |-> op, err |-> err, xfer |-> xfer]

\* ------------------------------------------------------------ arithmetic

\* a + b on u64 does not fit.
Overflows(a, b) == a + b > MaxU64
\* The wrapped sum of a release build without overflow checks.
WrapAdd(a, b) == (a + b) % (MaxU64 + 1)

\* ================================================================ session_keys

\* allowed_programs.len() as u8
LenAsU8(list) == Len(list) % 256

\* The fixed array after the copy loop: entries 0..9 of the vector, the rest
\* of the array untouched (zero-initialised account data).
CopyAllowed(list) ==
    [i \in 1..AllowedCap |-> IF i <= Len(list) THEN list[i] ELSE ZeroKey]

\* The account create_session_key writes.
create_session_key(owner, session_pubkey, max_amount_per_tx, max_total_amount, expiry_timestamp, allowed_programs, now) ==
    [exists |-> TRUE,
     owner |-> owner,
     session_pubkey |-> session_pubkey,
     max_amount_per_tx |-> max_amount_per_tx,
     max_total_amount |-> max_total_amount,
     spent_amount |-> 0,
     created_at |-> now,
     expiry_timestamp |-> expiry_timestamp,
     allowed_programs_count |-> LenAsU8(allowed_programs),
     allowed_programs |-> CopyAllowed(allowed_programs),
     is_active |-> TRUE]

\* The scan of validate_session over allowed_programs[0..count): "found",
\* "absent", or "panic" when the scan indexes past the array's ten slots.
ScanAllowed(sk, program_id) ==
    IF \E i \in 1..AllowedCap :
          i <= sk.allowed_programs_count /\ sk.allowed_programs[i] = program_id
    THEN "found"
    ELSE IF sk.allowed_programs_count > AllowedCap THEN "panic" ELSE "absent"

\* The result of validate_session's checks, in the order of the code.
ValidateErr(sk, program_id, amount, now, checks) ==
    IF ~sk.is_active THEN "SessionKeyNotActive"
    ELSE IF ~(now < sk.expiry_timestamp) THEN "SessionKeyExpired"
    ELSE IF ~(amount <= sk.max_amount_per_tx) THEN "AmountExceedsPerTxLimit"
    ELSE IF Overflows(sk.spent_amount, amount) /\ checks THEN "Panic"
    ELSE IF ~(WrapAdd(sk.spent_amount, amount) <= sk.max_total_amount)
         THEN "AmountExceedsTotalLimit"
    ELSE IF ScanAllowed(sk, program_id) = "panic" THEN "Panic"
    ELSE IF ScanAllowed(sk, program_id) = "absent" THEN "ProgramNotAllowed"
    ELSE "Ok"

\* session_key.spent_amount += amount
ValidateCommit(sk, amount) ==
    [sk EXCEPT !.spent_amount = WrapAdd(sk.spent_amount, amount)]

Init ==
    /\ clock = 0
    /\ overflow_checks \in BOOLEAN
    /\ session_key = NoAccount
    /\ given_programs = <<>>
    /\ vault = NoAccount
    /\ custody = 0
    /\ owner_tokens = Supply
    /\ last = Call("init", "Ok", FALSE)

\* The clock advances.
Tick ==
    /\ clock < MaxClock
    /\ clock' = clock + 1
    /\ last' = Call("tick", "Ok", FALSE)
    /\ UNCHANGED <<overflow_checks, session_key, given_programs, vault, custody, owner_tokens>>

\* create_session_key: `init` needs the account not to exist yet.
CreateSessionKey(caller, session_pubkey, per_tx, total, expiry, list) ==
    /\ ~session_key.exists
    /\ session_key' = create_session_key(caller, session_pubkey, per_tx, total,
                                         expiry, list, clock)
    /\ given_programs' = list
    /\ last' = Call("create_session_key", "Ok", FALSE)
    /\ UNCHANGED <<clock, overflow_checks, vault, custody, owner_tokens>>

\* validate_session: ValidateSession asks for any signer as session_authority.
ValidateSession(caller, program_id, amount) ==
    /\ session_key.exists
    /\ LET err == ValidateErr(session_key, program_id, amount, clock, overflow_checks)
       IN /\ session_key' = IF err = "Ok" THEN ValidateCommit(session_key, amount)
                            ELSE session_key
          /\ last' = Call("validate_session", err, FALSE)
    /\ UNCHANGED <<clock, overflow_checks, given_programs, vault, custody, owner_tokens>>

\* has_one = owner of UpdateSessionKey and CloseSessionKey.
HasOneOwner(account, caller) == account.owner = caller

\* revoke_session_key
RevokeSessionKey(caller) ==
    /\ session_key.exists
    /\ IF HasOneOwner(session_key, caller)
       THEN /\ session_key' = [session_key EXCEPT !.is_active = FALSE]
            /\ last' = Call("revoke_session_key", "Ok", FALSE)
       ELSE /\ session_key' = session_key
            /\ last' = Call("revoke_session_key", "ConstraintHasOne", FALSE)
    /\ UNCHANGED <<clock, overflow_checks, given_programs, vault, custody, owner_tokens>>

\* update_limits as it would be if writing the limits also re-armed the key.
UpdateLimitsReactivates(caller, per_tx, total) ==
    /\ session_key.exists
    /\ IF HasOneOwner(session_key, caller)
       THEN /\ session_key' = [session_key EXCEPT !.max_amount_per_tx = per_tx,
                                                  !.max_total_amount = total,
                                                  !.is_active = TRUE]
            /\ last' = Call("update_limits", "Ok", FALSE)
       ELSE /\ session_key' = session_key
            /\ last' = Call("update_limits", "ConstraintHasOne", FALSE)
    /\ UNCHANGED <<clock, overflow_checks, given_programs, vault, custody, owner_tokens>>

\* update_limits
UpdateLimits(caller, per_tx, total) ==
    /\ session_key.exists
    /\ IF HasOneOwner(session_key, caller)
       THEN /\ session_key' = [session_key EXCEPT !.max_amount_per_tx = per_tx,
                                                  !.max_total_amount = total]
            /\ last' = Call("update_limits", "Ok", FALSE)
       ELSE /\ session_key' = session_key
            /\ last' = Call("update_limits", "ConstraintHasOne", FALSE)
    /\ UNCHANGED <<clock, overflow_checks, given_programs, vault, custody, owner_tokens>>

\* close_session_key: `close = owner` releases the account.
CloseSessionKey(caller) ==
    /\ session_key.exists
    /\ IF HasOneOwner(session_key, caller)
       THEN /\ session_key' = NoAccount
            /\ given_programs' = <<>>
            /\ last' = Call("close_session_key", "Ok", FALSE)
       ELSE /\ UNCHANGED <<session_key, given_programs>>
            /\ last' = Call("close_session_key", "ConstraintHasOne", FALSE)
    /\ UNCHANGED <<clock, overflow_checks, vault, custody, owner_tokens>>

NextSession ==
    \/ Tick
    \/ \E c \in Creators, k \in SessionPubkeys, p \in CapChoices, t \in CapChoices,
          e \in Expiries, l \in ProgramLists :
          CreateSessionKey(c, k, p, t, e, l)
    \/ \E c \in Signers, p \in Programs, a \in U64 : ValidateSession(c, p, a)
    \/ \E c \in Signers : RevokeSessionKey(c)
    \/ \E c \in Signers, p \in CapChoices, t \in CapChoices : UpdateLimits(c, p, t)
    \/ \E c \in Signers : CloseSessionKey(c)

SpecSession == Init /\ [][NextSession]_vars

\* ================================================================== dca_vault

\* The account initialize_vault writes.
initialize_vault(owner, amount_per_cycle, frequency_seconds, total_cycles, now) ==
    [exists |-> TRUE,
     owner |-> owner,
     amount_per_cycle |-> amount_per_cycle,
     frequency_seconds |-> frequency_seconds,
     total_cycles |-> total_cycles,
     executed_cycles |-> 0,
     total_deposited |-> 0,
     total_received |-> 0,
     last_execution |-> now,
     next_execution |-> now + frequency_seconds,
     status |-> STATUS_ACTIVE]

\* initialize_vault: `init` needs the account not to exist yet.
InitializeVault(caller, amount_per_cycle, frequency_seconds, total_cycles) ==
    /\ ~vault.exists
    /\ vault' = initialize_vault(caller, amount_per_cycle, frequency_seconds,
                                 total_cycles, clock)
    /\ last' = Call("initialize_vault", "Ok", FALSE)
    /\ UNCHANGED <<clock, overflow_checks, session_key, given_programs, custody, owner_tokens>>

\* The result of deposit as it would be without the status check.
DepositErrNoStatusCheck(v, amount, wallet, checks) ==
    IF wallet < amount THEN "TokenInsufficientFunds"
    ELSE IF Overflows(v.total_deposited, amount) /\ checks THEN "Panic"
    ELSE "Ok"

\* The result of deposit: the status check, the token transfer out of the
\* owner's account, then total_deposited += amount.
DepositErr(v, amount, wallet, checks) ==
    IF ~(v.status = STATUS_ACTIVE) THEN "VaultNotActive"
    ELSE IF wallet < amount THEN "TokenInsufficientFunds"
    ELSE IF Overflows(v.total_deposited, amount) /\ checks THEN "Panic"
    ELSE "Ok"

\* deposit (DepositToVault: has_one = owner)
Deposit(caller, amount) ==
    /\ vault.exists
    /\ LET err == IF ~HasOneOwner(vault, caller) THEN "ConstraintHasOne"
                  ELSE DepositErr(vault, amount, owner_tokens, overflow_checks)
       IN /\ IF err = "Ok"
             THEN /\ custody' = custody + amount
                  /\ owner_tokens' = owner_tokens - amount
                  /\ vault' = [vault EXCEPT !.total_deposited =
                                               WrapAdd(vault.total_deposited, amount)]
             ELSE UNCHANGED <<vault, custody, owner_tokens>>
          /\ last' = Call("deposit", err,
                          err \in {"Ok", "TokenInsufficientFunds", "Panic"})
    /\ UNCHANGED <<clock, overflow_checks, session_key, given_programs>>

\* The validation phase as it would be without the status check.
ExecutePreconditionNoStatusCheck(v, balance, now) ==
    IF ~(now >= v.next_execution) THEN "TooEarlyToExecute"
    ELSE IF ~(v.executed_cycles < v.total_cycles) THEN "AllCyclesCompleted"
    ELSE IF ~(balance >= v.amount_per_cycle) THEN "InsufficientBalance"
    ELSE "Ok"

\* The validation phase as it would be without the cycle-count check.
ExecutePreconditionNoCycleCheck(v, balance, now) ==
    IF ~(now >= v.next_execution) THEN "TooEarlyToExecute"
    ELSE IF ~(v.status = STATUS_ACTIVE) THEN "VaultNotActive"
    ELSE IF ~(balance >= v.amount_per_cycle) THEN "InsufficientBalance"
    ELSE "Ok"

\* The validation phase of execute_dca, in the order of the code.
ExecutePrecondition(v, balance, now) ==
    IF ~(now >= v.next_execution) THEN "TooEarlyToExecute"
    ELSE IF ~(v.executed_cycles < v.total_cycles) THEN "AllCyclesCompleted"
    ELSE IF ~(v.status = STATUS_ACTIVE) THEN "VaultNotActive"
    ELSE IF ~(balance >= v.amount_per_cycle) THEN "InsufficientBalance"
    ELSE "Ok"

\* dest_balance_after.saturating_sub(dest_balance_before): the transfer of
\* amount_per_cycle to swap_program_account is the only token movement of the
\* instruction, so the destination account gains it when it is the account
\* passed as swap_program_account, and gains nothing otherwise.
AmountReceived(v, dest_is_swap_account) ==
    IF dest_is_swap_account THEN v.amount_per_cycle ELSE 0

\* The state update phase as it would be if the next cycle were scheduled
\* from the previous due time instead of the time of the call.
ExecuteCommitFromDueTime(v, amount_received, now) ==
    LET done == v.executed_cycles + 1 IN
    [v EXCEPT !.executed_cycles = done,
              !.total_received = WrapAdd(v.total_received, amount_received),
              !.last_execution = now,
              !.next_execution = v.next_execution + v.frequency_seconds,
              !.status = IF done >= v.total_cycles THEN STATUS_COMPLETED ELSE v.status]

\* The state update phase as it would be if the status were left alone.
ExecuteCommitNoCompletion(v, amount_received, now) ==
    [v EXCEPT !.executed_cycles = v.executed_cycles + 1,
              !.total_received = WrapAdd(v.total_received, amount_received),
              !.last_execution = now,
              !.next_execution = now + v.frequency_seconds]

\* The state update phase of execute_dca.
ExecuteCommit(v, amount_received, now) ==
    LET done == v.executed_cycles + 1 IN
    [v EXCEPT !.executed_cycles = done,
              !.total_received = WrapAdd(v.total_received, amount_received),
              !.last_execution = now,
              !.next_execution = now + v.frequency_seconds,
              !.status = IF done >= v.total_cycles THEN STATUS_COMPLETED ELSE v.status]

\* The result of execute_dca past its validation phase.
ExecuteErr(v, balance, now, min_amount_out, dest_is_swap_account, checks) ==
    IF ExecutePrecondition(v, balance, now) # "Ok"
    THEN ExecutePrecondition(v, balance, now)
    ELSE IF ~(AmountReceived(v, dest_is_swap_account) >= min_amount_out)
         THEN "SlippageExceeded"
    ELSE IF Overflows(v.total_received, AmountReceived(v, dest_is_swap_account)) /\ checks
         THEN "Panic"
    ELSE "Ok"

\* execute_dca as it would be if a failure after token::transfer kept the
\* transfer (no abort of the transaction).
ExecuteDcaKeepsTransfer(caller, min_amount_out, dest_is_swap_account) ==
    /\ vault.exists
    /\ LET err == ExecuteErr(vault, custody, clock, min_amount_out,
                             dest_is_swap_account, overflow_checks)
           received == AmountReceived(vault, dest_is_swap_account)
       IN /\ IF err = "Ok"
             THEN /\ custody' = custody - vault.amount_per_cycle
                  /\ vault' = ExecuteCommit(vault, received, clock)
             ELSE IF err \in {"SlippageExceeded", "Panic"}
             THEN /\ custody' = custody - vault.amount_per_cycle
                  /\ vault' = vault
             ELSE UNCHANGED <<vault, custody>>
          /\ last' = Call("execute_dca", err, err \in {"Ok", "SlippageExceeded", "Panic"})
    /\ UNCHANGED <<clock, overflow_checks, session_key, given_programs, owner_tokens>>

\* execute_dca: ExecuteDCA asks for any signer as session_authority and has
\* no constraint on it.
ExecuteDca(caller, min_amount_out, dest_is_swap_account) ==
    /\ vault.exists
    /\ LET err == ExecuteErr(vault, custody, clock, min_amount_out,
                             dest_is_swap_account, overflow_checks)
           received == AmountReceived(vault, dest_is_swap_account)
       IN /\ IF err = "Ok"
             THEN /\ custody' = custody - vault.amount_per_cycle
                  /\ vault' = ExecuteCommit(vault, received, clock)
             ELSE UNCHANGED <<vault, custody>>
          /\ last' = Call("execute_dca", err, err \in {"Ok", "SlippageExceeded", "Panic"})
    /\ UNCHANGED <<clock, overflow_checks, session_key, given_programs, owner_tokens>>

\* pause_vault (UpdateVault: has_one = owner)
PauseVault(caller) ==
    /\ vault.exists
    /\ IF HasOneOwner(vault, caller)
       THEN /\ vault' = [vault EXCEPT !.status = STATUS_PAUSED]
            /\ last' = Call("pause_vault", "Ok", FALSE)
       ELSE /\ vault' = vault
            /\ last' = Call("pause_vault", "ConstraintHasOne", FALSE)
    /\ UNCHANGED <<clock, overflow_checks, session_key, given_programs, custody, owner_tokens>>

\* The account resume_vault writes.
resume_vault(v, now) ==
    [v EXCEPT !.status = STATUS_ACTIVE,
              !.next_execution = now + v.frequency_seconds]

\* resume_vault (UpdateVault: has_one = owner)
ResumeVault(caller) ==
    /\ vault.exists
    /\ LET err == IF ~HasOneOwner(vault, caller) THEN "ConstraintHasOne"
                  ELSE IF ~(vault.status = STATUS_PAUSED) THEN "VaultNotPaused"
                  ELSE "Ok"
       IN /\ vault' = IF err = "Ok" THEN resume_vault(vault, clock) ELSE vault
          /\ last' = Call("resume_vault", err, FALSE)
    /\ UNCHANGED <<clock, overflow_checks, session_key, given_programs, custody, owner_tokens>>

\* close_vault as it would be if it were permitted on an Active vault only.
CloseVaultActiveOnly(caller) ==
    /\ vault.exists
    /\ IF HasOneOwner(vault, caller) /\ vault.status = STATUS_ACTIVE
       THEN /\ vault' = NoAccount
            /\ custody' = 0
            /\ owner_tokens' = owner_tokens + custody
            /\ last' = Call("close_vault", "Ok", custody > 0)
       ELSE /\ UNCHANGED <<vault, custody, owner_tokens>>
            /\ last' = Call("close_vault",
                            IF HasOneOwner(vault, caller) THEN "VaultNotActive"
                            ELSE "ConstraintHasOne", FALSE)
    /\ UNCHANGED <<clock, overflow_checks, session_key, given_programs>>

\* close_vault (CloseVault: has_one = owner, close = owner): the whole balance
\* goes to the owner and the account is released.
CloseVault(caller) ==
    /\ vault.exists
    /\ IF HasOneOwner(vault, caller)
       THEN /\ vault' = NoAccount
            /\ custody' = 0
            /\ owner_tokens' = owner_tokens + custody
            /\ last' = Call("close_vault", "Ok", custody > 0)
       ELSE /\ UNCHANGED <<vault, custody, owner_tokens>>
            /\ last' = Call("close_vault", "ConstraintHasOne", FALSE)
    /\ UNCHANGED <<clock, overflow_checks, session_key, given_programs>>

NextVault ==
    \/ Tick
    \/ \E c \in Creators, a \in VaultAmounts, f \in Freqs, n \in CycleCounts :
          InitializeVault(c, a, f, n)
    \/ \E c \in Signers, a \in VaultAmounts : Deposit(c, a)
    \/ \E c \in Signers, m \in VaultAmounts, d \in BOOLEAN : ExecuteDca(c, m, d)
    \/ \E c \in Signers : PauseVault(c)
    \/ \E c \in Signers : ResumeVault(c)
    \/ \E c \in Signers : CloseVault(c)

SpecVault == Init /\ [][NextVault]_vars

\* ------------------------------------------- a vault left to run its cycles

\* The clock advances, and keeps advancing past MaxClock for as long as the
\* vault waits for its next due time.
TickToDue ==
    /\ \/ clock < MaxClock
       \/ vault.exists /\ clock < vault.next_execution
    /\ clock' = clock + 1
    /\ last' = Call("tick", "Ok", FALSE)
    /\ UNCHANGED <<overflow_checks, session_key, given_programs, vault, custody, owner_tokens>>

\* An execute_dca whose swap returns at least min_amount_out.
ExecuteAttempt ==
    \E c \in Signers : ExecuteDca(c, 0, TRUE)

\* A vault that is never paused and never closed.
NextProgress ==
    \/ TickToDue
    \/ \E c \in Creators, a \in VaultAmounts, f \in Freqs, n \in CycleCounts :
          InitializeVault(c, a, f, n)
    \/ \E c \in Signers, a \in VaultAmounts : Deposit(c, a)
    \/ \E c \in Signers, m \in VaultAmounts, d \in BOOLEAN : ExecuteDca(c, m, d)

\* The clock keeps advancing and execute_dca keeps being attempted.
SpecProgress ==
    Init /\ [][NextProgress]_vars /\ WF_vars(TickToDue) /\ WF_vars(ExecuteAttempt)

\* ------------------------------------------------- the two programs together

\* A delegated cycle as the deployment runs it: one session key scoped to the
\* swap program, one vault, and the instructions of both programs in any order.
Next ==
    \/ Tick
    \/ \E c \in Creators, k \in SessionPubkeys :
          CreateSessionKey(c, k, MaxAmount, MaxU64, MaxClock, <<"swap">>)
    \/ \E c \in Signers : ValidateSession(c, "swap", 1)
    \/ \E c \in Creators : RevokeSessionKey(c)
    \/ \E c \in Creators : UpdateLimits(c, MaxAmount, MaxAmount)
    \/ \E c \in Creators : CloseSessionKey(c)
    \/ \E c \in Creators : InitializeVault(c, 1, 1, MaxCycles)
    \/ \E c \in Creators, a \in 1..MaxAmount : Deposit(c, a)
    \/ \E c \in Signers, m \in 0..1 : ExecuteDca(c, m, TRUE)
    \/ \E c \in Creators : PauseVault(c)
    \/ \E c \in Creators : ResumeVault(c)
    \/ \E c \in Creators : CloseVault(c)

Spec == Init /\ [][Next]_vars

\* ===================================================================== claims

\* The session key would pass validate_session for `delegate`, the swap
\* program and the vault's amount_per_cycle.
DelegateAuthorized(delegate) ==
    /\ session_key.exists
    /\ session_key.session_pubkey = delegate
    /\ ValidateErr(session_key, "swap", vault.amount_per_cycle, clock,
                   overflow_checks) = "Ok"

\* C1: execute_dca requests the outbound transfer of amount_per_cycle only if
\* an authorization of the calling delegate passes validation (active,
\* unexpired, swap program allowed, per-call and total budget sufficient) in
\* the same attempt.
C1_TransferOnlyIfAuthorized ==
    [][\A c \in Signers, m \in VaultAmounts, d \in BOOLEAN :
          (ExecuteDca(c, m, d) /\ last'.xfer) => DelegateAuthorized(c)]_vars

\* C2: the authorization's spent counter is increased only by a cycle whose
\* fund movement and slippage check both succeeded.
C2_SpentCommittedOnlyWithCycle ==
    [][(session_key.exists /\ session_key'.exists
        /\ session_key'.spent_amount # session_key.spent_amount)
       => (last'.op = "execute_dca" /\ last'.err = "Ok")]_vars

\* C3: when an execute_dca attempt has initiated the transfer of the due cycle
\* at the current clock value, a second attempt racing it at that same clock
\* value fails its validation phase, so it moves no funds.
C3_OneTransferPerDueCycle ==
    (vault.exists /\ last.op = "execute_dca" /\ last.err = "Ok")
        => ExecutePrecondition(vault, custody, clock) # "Ok"

\* The targets the live session key was created with.
GivenTargets == {given_programs[i] : i \in 1..Len(given_programs)}

\* The condition the specification gives for validate(target, amount) to succeed.
ValidateAllowed(target, amount) ==
    /\ session_key.is_active
    /\ clock < session_key.expiry_timestamp
    /\ amount <= session_key.max_amount_per_tx
    /\ session_key.spent_amount + amount <= session_key.max_total_amount
    /\ target \in GivenTargets

\* C4: validate_session succeeds iff the key is active, unexpired, the amount
\* is within the per-call cap, spent + amount is within the total cap and the
\* target is one of the allowed targets given at creation; on success spent
\* becomes spent + amount exactly.
C4_ValidateIff ==
    [][\A c \in Signers, p \in Programs, a \in U64 :
          ValidateSession(c, p, a) =>
             /\ (last'.err = "Ok") <=> ValidateAllowed(p, a)
             /\ (last'.err = "Ok") =>
                   session_key'.spent_amount = session_key.spent_amount + a]_vars

ValidateErrors ==
    {"SessionKeyNotActive", "SessionKeyExpired", "AmountExceedsPerTxLimit",
     "AmountExceedsTotalLimit", "ProgramNotAllowed"}

\* C5: whenever validate_session fails, it fails with one of the five
\* authorization errors and leaves every field of the session key unchanged;
\* when only the total cap is exceeded the error is AmountExceedsTotalLimit.
C5_ValidateFailure ==
    [][\A c \in Signers, p \in Programs, a \in U64 :
          (ValidateSession(c, p, a) /\ last'.err # "Ok") =>
             /\ last'.err \in ValidateErrors
             /\ session_key' = session_key
             /\ (/\ session_key.is_active
                 /\ clock < session_key.expiry_timestamp
                 /\ a <= session_key.max_amount_per_tx
                 /\ p \in GivenTargets
                 /\ session_key.spent_amount + a > session_key.max_total_amount)
                => last'.err = "AmountExceedsTotalLimit"]_vars

\* C6: spent <= totalCap in every reachable state of an authorization.
C6_SpentWithinTotal ==
    session_key.exists => session_key.spent_amount <= session_key.max_total_amount

\* C7: across each validate_session call spent does not decrease, and a call
\* made with spent <= totalCap leaves spent <= totalCap.
C7_SpentMonotone ==
    [][(session_key.exists /\ last'.op = "validate_session") =>
          /\ session_key'.spent_amount >= session_key.spent_amount
          /\ (session_key.spent_amount <= session_key.max_total_amount
              => session_key'.spent_amount <= session_key'.max_total_amount)]_vars

\* The session key is revoked or expired: no validation may pass any more.
Dead(sk, now) == ~sk.is_active \/ now >= sk.expiry_timestamp

\* C8: revoke_session_key clears is_active; while the account lives, a
\* revoked key stays revoked and an expired key stays expired whatever
\* instruction runs (update_limits included), and every validate_session on
\* such a key fails and changes nothing.
C8_DeadStaysDead ==
    [][(session_key.exists /\ session_key'.exists) =>
          /\ (last'.op = "revoke_session_key" /\ last'.err = "Ok")
                => ~session_key'.is_active
          /\ ~session_key.is_active => ~session_key'.is_active
          /\ Dead(session_key, clock) =>
                /\ Dead(session_key', clock')
                /\ last'.op = "validate_session" =>
                      (last'.err # "Ok" /\ session_key' = session_key)]_vars

\* C8 witness: a validate_session on a revoked, unexpired key that carries the
\* largest caps has just failed with SessionKeyNotActive.
C8_Witness ==
    /\ session_key.exists
    /\ ~session_key.is_active
    /\ clock < session_key.expiry_timestamp
    /\ session_key.max_total_amount = MaxU64
    /\ session_key.max_amount_per_tx = MaxU64
    /\ last.op = "validate_session"
    /\ last.err = "SessionKeyNotActive"

\* C9: every existing session key was created with at most 10 allowed
\* programs and records a count of at most 10.
C9_AtMostTenTargets ==
    session_key.exists =>
        /\ Len(given_programs) <= AllowedCap
        /\ session_key.allowed_programs_count <= AllowedCap

\* Errors that reject a caller who is not the required owner or delegate.
AuthorityErrors == {"ConstraintHasOne", "Unauthorized"}

\* C10: a validate_session call by anyone but the key's session_pubkey, and a
\* revoke_session_key or update_limits call by anyone but its owner, fails
\* with an authority error and leaves the session key unchanged.
C10_OnlyRequiredPrincipals ==
    [][/\ \A c \in Signers, p \in Programs, a \in U64 :
             (ValidateSession(c, p, a) /\ c # session_key.session_pubkey) =>
                (last'.err \in AuthorityErrors /\ session_key' = session_key)
       /\ \A c \in Signers :
             (RevokeSessionKey(c) /\ c # session_key.owner) =>
                (last'.err \in AuthorityErrors /\ session_key' = session_key)
       /\ \A c \in Signers, p \in CapChoices, t \in CapChoices :
             (UpdateLimits(c, p, t) /\ c # session_key.owner) =>
                (last'.err \in AuthorityErrors /\ session_key' = session_key)]_vars

\* Every instruction of NextVault writes its own name to last.op and Tick
\* writes "tick", so last'.op = "execute_dca" holds of exactly the execute_dca
\* steps, and likewise for the other instructions.

\* C11: whenever a vault account exists after an instruction, its
\* executed_cycles is at most total_cycles, and no instruction on an existing
\* vault (deposit, execute_dca, pause_vault, resume_vault) lowers it.
C11_ExecutedCyclesBounded ==
    [][vault'.exists =>
          /\ vault'.executed_cycles <= vault'.total_cycles
          /\ vault.exists => vault'.executed_cycles >= vault.executed_cycles]_vars

\* C11 witness: every cycle of a vault that moves funds on a positive period
\* has run and a further execute_dca was turned away.
C11_Witness ==
    /\ vault.exists
    /\ vault.frequency_seconds > 0
    /\ vault.amount_per_cycle > 0
    /\ vault.total_cycles > 0
    /\ vault.executed_cycles = vault.total_cycles
    /\ last.op = "execute_dca"
    /\ last.err = "AllCyclesCompleted"

\* The status changes the specification allows on a live vault account.
AllowedStatusChange(from, to, op) ==
    \/ from = STATUS_ACTIVE /\ to = STATUS_PAUSED /\ op = "pause_vault"
    \/ from = STATUS_PAUSED /\ to = STATUS_ACTIVE /\ op = "resume_vault"
    \/ from = STATUS_ACTIVE /\ to = STATUS_COMPLETED /\ op = "execute_dca"
    \/ to = STATUS_CANCELLED /\ op = "close_vault"

\* C12: the status of a vault changes only Active->Paused (pause),
\* Paused->Active (resume), Active->Completed (execute_dca) or to Cancelled
\* (close); a Completed vault never becomes Paused or Active, and pause on a
\* vault that is not Active leaves its status alone.
C12_StatusTransitions ==
    [][(vault.exists /\ vault'.exists /\ vault'.status # vault.status) =>
          AllowedStatusChange(vault.status, vault'.status, last'.op)]_vars

\* C13 as claimed: once executed_cycles has reached total_cycles (N >= 1
\* successful calls), every further execute_dca fails with AllCyclesCompleted
\* and changes nothing.
C13_FurtherCallAllCyclesCompleted ==
    [][(/\ last'.op = "execute_dca"
        /\ vault.total_cycles > 0
        /\ vault.executed_cycles = vault.total_cycles) =>
          /\ last'.err = "AllCyclesCompleted"
          /\ vault' = vault
          /\ custody' = custody]_vars

\* C13 amended: the successful execute_dca that brings executed_cycles to
\* total_cycles sets the status to Completed; with executed_cycles at
\* total_cycles every execute_dca fails, with TooEarlyToExecute while
\* now < next_execution and with AllCyclesCompleted otherwise, requests no
\* transfer and changes neither the vault nor the custody balance.
C13_CompletedThenRejected ==
    [][last'.op = "execute_dca" =>
          /\ (last'.err = "Ok" /\ vault'.executed_cycles = vault'.total_cycles)
                => vault'.status = STATUS_COMPLETED
          /\ vault.executed_cycles >= vault.total_cycles =>
                /\ last'.err = IF clock < vault.next_execution
                               THEN "TooEarlyToExecute"
                               ELSE "AllCyclesCompleted"
                /\ ~last'.xfer
                /\ vault' = vault
                /\ custody' = custody
                /\ owner_tokens' = owner_tokens]_vars

\* C13 witness: both cycles of a two-cycle vault have run, the vault is
\* Completed, and a further execute_dca was turned away.
C13_Witness ==
    /\ vault.exists
    /\ vault.total_cycles = 2
    /\ vault.executed_cycles = 2
    /\ vault.frequency_seconds > 0
    /\ vault.amount_per_cycle > 0
    /\ vault.status = STATUS_COMPLETED
    /\ last.op = "execute_dca"
    /\ last.err \in {"AllCyclesCompleted", "TooEarlyToExecute"}

\* The preconditions of execute_dca hold and the destination gains less than
\* min_amount_out.
SlippageCase(min_amount_out, dest_is_swap_account) ==
    /\ clock >= vault.next_execution
    /\ vault.executed_cycles < vault.total_cycles
    /\ vault.status = STATUS_ACTIVE
    /\ custody >= vault.amount_per_cycle
    /\ (IF dest_is_swap_account THEN vault.amount_per_cycle ELSE 0) < min_amount_out

C15_DepositOnlyWhileActive ==
    [][last'.op = "deposit" =>
          /\ vault.status # STATUS_ACTIVE =>
                /\ last'.err \in {"VaultNotActive", "ConstraintHasOne"}
                /\ vault' = vault
                /\ custody' = custody
                /\ owner_tokens' = owner_tokens
          /\ last'.err = "Ok" => vault.status = STATUS_ACTIVE
          /\ \A c \in Signers, a \in VaultAmounts :
                Deposit(c, a) =>
                   /\ (vault.status # STATUS_ACTIVE /\ c = vault.owner) =>
                         last'.err = "VaultNotActive"
                   /\ last'.err = "Ok" =>
                         /\ custody' = custody + a
                         /\ vault'.total_deposited = vault.total_deposited + a
                   /\ (/\ vault.status = STATUS_ACTIVE
                       /\ c = vault.owner
                       /\ owner_tokens >= a
                       /\ vault.total_deposited + a <= MaxU64) => last'.err = "Ok"]_vars

\* C15 witness: the owner's deposit on a Paused vault that already holds a
\* deposit was turned away with VaultNotActive.
C15_Witness ==
    /\ vault.exists
    /\ vault.frequency_seconds > 0
    /\ vault.total_cycles > 0
    /\ vault.status = STATUS_PAUSED
    /\ vault.total_deposited > 0
    /\ custody = vault.total_deposited
    /\ owner_tokens > 0
    /\ last.op = "deposit"
    /\ last.err = "VaultNotActive"

\* C16: the owner's close_vault succeeds whatever the status, moves the whole
\* custody balance to the owner and releases the account; no live account
\* carries the Cancelled status, so a vault is cancelled exactly when
\* close_vault has released it, and nothing else releases it; on a released
\* vault no instruction but initialize_vault has any effect.
C16_CloseAnyStatusTerminal ==
    [][/\ last'.op = "close_vault" =>
             \A c \in Signers :
                (c = vault.owner /\ CloseVault(c)) =>
                   /\ last'.err = "Ok"
                   /\ ~vault'.exists
                   /\ custody' = 0
                   /\ owner_tokens' = owner_tokens + custody
       /\ vault'.exists => vault'.status # STATUS_CANCELLED
       /\ (vault.exists /\ ~vault'.exists) =>
             (last'.op = "close_vault" /\ last'.err = "Ok")
       /\ ~vault.exists =>
             /\ custody' = custody
             /\ owner_tokens' = owner_tokens
             /\ vault'.exists => last'.op = "initialize_vault"]_vars

\* C16 witness: a close_vault has just released a vault that still held funds.
C16_Witness ==
    /\ ~vault.exists
    /\ custody = 0
    /\ owner_tokens > 0
    /\ last.op = "close_vault"
    /\ last.err = "Ok"
    /\ last.xfer

\* The four precondition errors of execute_dca.
PreconditionErrors ==
    {"TooEarlyToExecute", "AllCyclesCompleted", "VaultNotActive", "InsufficientBalance"}

\* C17: an execute_dca called while now < next_execution, or
\* executed_cycles >= total_cycles, or status # Active, or the custody
\* balance is below amount_per_cycle, fails with the error of one of the
\* conditions that hold (TooEarlyToExecute whenever now < next_execution),
\* requests no transfer and changes neither the custody balance nor the vault.
C17_PreconditionFailureChangesNothing ==
    [][last'.op = "execute_dca" =>
          LET early == clock < vault.next_execution
              done == vault.executed_cycles >= vault.total_cycles
              inactive == vault.status # STATUS_ACTIVE
              short == custody < vault.amount_per_cycle
          IN /\ (early \/ done \/ inactive \/ short) =>
                   /\ last'.err \in PreconditionErrors
                   /\ ~last'.xfer
                   /\ vault' = vault
                   /\ custody' = custody
                   /\ owner_tokens' = owner_tokens
             /\ early => last'.err = "TooEarlyToExecute"
             /\ last'.err = "TooEarlyToExecute" => early
             /\ last'.err = "AllCyclesCompleted" => done
             /\ last'.err = "VaultNotActive" => inactive
             /\ last'.err = "InsufficientBalance" => short]_vars

\* C17 witness: an execute_dca of a due, funded vault with cycles left was
\* turned away because the vault is Paused.
C17_Witness ==
    /\ vault.exists
    /\ vault.frequency_seconds > 0
    /\ vault.total_cycles > 0
    /\ vault.status = STATUS_PAUSED
    /\ vault.amount_per_cycle > 0
    /\ custody >= vault.amount_per_cycle
    /\ clock >= vault.next_execution
    /\ vault.executed_cycles < vault.total_cycles
    /\ last.op = "execute_dca"
    /\ last.err = "VaultNotActive"
    /\ ~last.xfer

\* C18 as claimed: after a successful execute_dca, next_execution equals the
\* value last_execution had before the call plus frequency_seconds.
C18_NextFromPreviousLast ==
    [][(last'.op = "execute_dca" /\ last'.err = "Ok") =>
          vault'.next_execution = vault.last_execution + vault.frequency_seconds]_vars

\* C18 amended: after a successful execute_dca, last_execution is the time
\* of the call and next_execution is the time of the call plus
\* frequency_seconds.
C18_NextFromCallTime ==
    [][(last'.op = "execute_dca" /\ last'.err = "Ok") =>
          /\ vault'.last_execution = clock
          /\ vault'.next_execution = clock + vault.frequency_seconds
          /\ vault'.frequency_seconds = vault.frequency_seconds]_vars

\* C18 witness: a cycle of a vault with a positive period has just run, later
\* than the period after the vault was created.
C18_Witness ==
    /\ vault.exists
    /\ vault.frequency_seconds = 1
    /\ vault.amount_per_cycle > 0
    /\ vault.executed_cycles = 1
    /\ vault.last_execution = 2
    /\ vault.next_execution = 3
    /\ last.op = "execute_dca"
    /\ last.err = "Ok"

\* C19: right after initialize_vault, a successful execute_dca or a
\* successful resume_vault, next_execution = last_execution +
\* frequency_seconds on the stored account.
C19_NextIsLastPlusFrequency ==
    (/\ vault.exists
     /\ last.op \in {"initialize_vault", "execute_dca", "resume_vault"}
     /\ last.err = "Ok") =>
        vault.next_execution = vault.last_execution + vault.frequency_seconds

\* C20: a successful execute_dca happens no earlier than frequency_seconds
\* after the vault's previous cycle, or after its creation when it is the
\* first, and strictly after the previous cycle; resume_vault never moves
\* next_execution back and pause_vault leaves it alone.
C20_CyclesRateLimited ==
    [][/\ (last'.op = "execute_dca" /\ last'.err = "Ok") =>
             /\ clock >= vault.last_execution + vault.frequency_seconds
             /\ vault.executed_cycles > 0 => clock > vault.last_execution
       /\ (last'.op \in {"pause_vault", "resume_vault"}) =>
             vault'.next_execution >= vault.next_execution]_vars

\* The vault has run all its cycles and says so.
Done ==
    /\ vault.exists
    /\ vault.status = STATUS_COMPLETED
    /\ vault.executed_cycles = vault.total_cycles

\* A cycle is due and the custody balance does not cover it.
Starved ==
    /\ vault.exists
    /\ clock >= vault.next_execution
    /\ vault.executed_cycles < vault.total_cycles
    /\ vault.status = STATUS_ACTIVE
    /\ custody < vault.amount_per_cycle

\* C21: every vault initialize_vault has accepted, if never paused or closed,
\* with the clock advancing and execute_dca attempted fairly with a swap that
\* returns enough, eventually is Completed with executed_cycles =
\* total_cycles, unless the custody balance fails to cover a due cycle; and
\* once it is, no execute_dca requests a transfer.
C21_ProgressToCompletion ==
    /\ [](vault.exists => <>(Done \/ Starved))
    /\ [][(Done /\ last'.op = "execute_dca") => ~last'.xfer]_vars

====
